---- MODULE Spec2Model ----
(***************************************************************************)
(* Model of zig_deps (src/zig_deps/main.py): discovery of build.zig.zon    *)
(* manifests, extraction of their dependency URLs, and the reconcile loop  *)
(* of main that queries `zig fetch` and optionally runs `zig fetch --save`.*)
(*                                                                         *)
(* Text is modelled as sequences of one-character strings.  Output lines   *)
(* are sequences of strings: the literal pieces of the f-strings are kept  *)
(* as whole pieces, interpolated values character by character.            *)
(***************************************************************************)
EXTENDS Integers, Sequences, FiniteSets, TLC

\* ---------------------------------------------------------------- bounds
\* Largest number of lines of a manifest in the line-by-line exploration.
MaxLines == 2

\* ------------------------------------------------------------- constants
HASH_DISPLAY_LEN == 7
ZON == "build.zig.zon"

\* Characters removed by str.strip() with no argument.
Whitespace == {" ", "\t", "\n", "\r", "\f"}

\* ------------------------------------------------------- string helpers
\* s[:n]
Prefix(s, n) == SubSeq(s, 1, IF n < Len(s) THEN n ELSE Len(s))

\* str.startswith
StartsWith(s, p) == Len(s) >= Len(p) /\ SubSeq(s, 1, Len(p)) = p

RECURSIVE LStrip(_)
LStrip(s) ==
    IF s # <<>> /\ Head(s) \in Whitespace THEN LStrip(Tail(s)) ELSE s

RECURSIVE RStrip(_)
RStrip(s) ==
    IF s # <<>> /\ s[Len(s)] \in Whitespace
    THEN RStrip(SubSeq(s, 1, Len(s) - 1))
    ELSE s

\* Variant of Strip: only the end of the line is stripped (raw.rstrip()).
StripTrailingOnly(s) == RStrip(s)

\* str.strip()
Strip(s) == RStrip(LStrip(s))

\* str.split(sep) for a one-character separator: the pieces between the
\* occurrences of sep, always at least one piece.
RECURSIVE Split(_, _)
Split(s, sep) ==
    IF \E i \in 1..Len(s) : s[i] = sep
    THEN LET i == CHOOSE k \in 1..Len(s) :
                      s[k] = sep /\ \A j \in 1..(k - 1) : s[j] # sep
         IN  <<SubSeq(s, 1, i - 1)>> \o Split(SubSeq(s, i + 1, Len(s)), sep)
    ELSE <<s>>

\* -------------------------------------------- the Dependencies mapping
\* defaultdict[Path, list[str]]: a sequence of groups in insertion order.
HasKey(deps, folder) == \E i \in 1..Len(deps) : deps[i].folder = folder

\* dependencies[folder]: creates the empty list for a missing key.
GetOrCreate(deps, folder) ==
    IF HasKey(deps, folder)
    THEN deps
    ELSE Append(deps, [folder |-> folder, urls |-> <<>>])

\* dependencies[folder].append(value), the key being present.
AppendValue(deps, folder, value) ==
    [i \in 1..Len(deps) |->
        IF deps[i].folder = folder
        THEN [deps[i] EXCEPT !.urls = Append(@, value)]
        ELSE deps[i]]

\* ----------------------------------------------------------- extraction
\* Variant of FindLine: the group of the folder is looked up for every
\* line that is no comment, before the line is examined.
FindLineTouchFirst(acc, folder, raw) ==
    LET line == Strip(raw) IN
    IF acc.err # "none" THEN acc
    ELSE IF StartsWith(line, <<"/", "/">>) THEN acc
    ELSE LET touched == GetOrCreate(acc.deps, folder)
             pieces  == Split(line, "\"")
         IN  IF ~StartsWith(line, <<".", "u", "r", "l">>)
             THEN [deps |-> touched, err |-> "none"]
             ELSE IF Len(pieces) < 2
             THEN [deps |-> touched, err |-> "IndexError"]
             ELSE [deps |-> AppendValue(touched, folder, pieces[2]),
                   err  |-> "none"]

\* One iteration of the loop of _find_dependencies over a raw line.  acc is
\* [deps, err]; the first exception ends the loop.
FindLine(acc, folder, raw) ==
    LET line == Strip(raw) IN
    IF acc.err # "none" THEN acc
    ELSE IF StartsWith(line, <<"/", "/">>) THEN acc
    ELSE IF StartsWith(line, <<".", "u", "r", "l">>)
    THEN LET touched == GetOrCreate(acc.deps, folder)
             pieces  == Split(line, "\"")
         IN  IF Len(pieces) < 2
             THEN [deps |-> touched, err |-> "IndexError"]
             ELSE [deps |-> AppendValue(touched, folder, pieces[2]),
                   err  |-> "none"]
    ELSE acc

RECURSIVE FindLines(_, _, _)
FindLines(acc, folder, lines) ==
    IF lines = <<>> THEN acc
    ELSE FindLines(FindLine(acc, folder, Head(lines)), folder, Tail(lines))

\* Variant of Parent: every manifest is filed under root.
ParentIsRoot(path) == <<>>

\* file.parent
Parent(path) == SubSeq(path, 1, Len(path) - 1)

\* _find_dependencies(file, dependencies) on the tree t.
FindDependencies(t, file, acc) == FindLines(acc, Parent(file), t.files[file])

\* ------------------------------------------------------------- the walk
\* A tree t is [dirs, files]: dirs maps the path of a directory to its
\* entries in iterdir() order, files maps the path of a manifest to its
\* lines.  An entry is [name, kind], kind being "dir", "file" or "other"
\* (neither is_dir() nor is_file(), such as a socket).
RECURSIVE CollectDependencies(_, _, _, _)
RECURSIVE CollectChildren(_, _, _, _, _)
CollectChildren(t, dir, children, acc, rec) ==
    IF children = <<>> \/ acc.err # "none" THEN acc
    ELSE LET child == Head(children)
             path  == Append(dir, child.name)
             next  ==
                 IF child.kind = "dir" /\ rec
                 THEN CollectDependencies(t, path, acc, rec)
                 ELSE IF child.kind = "file" /\ child.name = ZON
                 THEN FindDependencies(t, path, acc)
                 ELSE acc
         IN  CollectChildren(t, dir, Tail(children), next, rec)

CollectDependencies(t, dir, acc, rec) ==
    CollectChildren(t, dir, t.dirs[dir], acc, rec)

\* get_dependencies(root, recursive=...)
GetDependencies(t, rec) ==
    CollectDependencies(t, <<>>, [deps |-> <<>>, err |-> "none"], rec)

\* ---------------------------------------------------------------- URLs
\* Variant of GetBase: a URL without '#' is its own base.
GetBaseLenient(url) == [ok |-> TRUE, base |-> Split(url, "#")[1]]

\* get_base(url): [ok, base].  ok is FALSE where the code raises
\* RuntimeError("Unsupported URL format").
GetBase(url) ==
    LET pieces == Split(url, "#") IN
    IF Len(pieces) - 1 = 0
    THEN [ok |-> FALSE, base |-> <<>>]
    ELSE [ok |-> TRUE, base |-> pieces[1]]

\* -------------------------------------------------------------- output
\* f"[{base}] already up to date\n"
UpToDateLine(b) == <<"[">> \o b \o <<"] already up to date\n">>

\* f"[{base}] out of date\n"
OutOfDateLine(b) == <<"[">> \o b \o <<"] out of date\n">>

\* Variant of UpdatedLine: the hashes are written in full.
UpdatedLineFull(b, cur, lat) ==
    <<"[">> \o b \o <<"] updated ">> \o cur \o <<" -> ">> \o lat \o <<"\n">>

\* f"[{base}] updated {current[:HASH_DISPLAY_LEN]} -> {latest[:HASH_DISPLAY_LEN]}\n"
UpdatedLine(b, cur, lat) ==
    <<"[">> \o b \o <<"] updated ">> \o Prefix(cur, HASH_DISPLAY_LEN)
        \o <<" -> ">> \o Prefix(lat, HASH_DISPLAY_LEN) \o <<"\n">>

\* The message of the empty mapping; it carries no newline.
NoZonLine ==
    <<"no ", ZON, " file found (or no URLs in it).",
      " did you run the command from the wrong directory?">>

\* Variant of Branch: the update flag is tested first.
BranchUpdateFirst(cur, lat, upd) ==
    IF upd THEN "update"
    ELSE IF cur = lat THEN "uptodate"
    ELSE "outofdate"

\* Variant of Branch: the update flag is not tested.
BranchIgnoresFlag(cur, lat, upd) ==
    IF cur = lat THEN "uptodate" ELSE "update"

\* The branch main takes for one declaration once both hashes are known.
Branch(cur, lat, upd) ==
    IF cur = lat THEN "uptodate"
    ELSE IF upd THEN "update"
    ELSE "outofdate"

\* ------------------------------------------------------------ the inputs
LineUrlA       == <<" ", ".", "u", "r", "l", "=", "\"", "a", "#", "1", "\"", ",", "\n">>
LineUrlB       == <<".", "u", "r", "l", "x", "=", "\"", "b", "#", "2", "#", "3", "\"">>
LineOpenQuote  == <<".", "u", "r", "l", "=", "\"", "a", "#", "1", "\n">>
LineComment    == <<"\t", "/", "/", ".", "u", "r", "l", "=", "\"", "c", "#", "1", "\"">>
LineNoFragment == <<".", "u", "r", "l", "=", "\"", "d", "\"">>
LineNoQuote    == <<".", "u", "r", "l", "=", "e", "#", "1">>
LineHash       == <<".", "h", "a", "s", "h", "=", "\"", "x", "\"">>
LineInner      == <<".", "d", "=", "{", ".", "u", "r", "l", "=", "\"", "f", "#", "1", "\"", "}">>

Lines == {LineUrlA, LineUrlB, LineOpenQuote, LineComment, LineNoFragment,
          LineNoQuote, LineHash, LineInner}

\* Every manifest of at most MaxLines of these lines.
AllManifests == UNION {[1..n -> Lines] : n \in 0..MaxLines}

\* The manifests placed in the trees that hold several manifests.
SmallManifests == {<<LineUrlA>>, <<LineComment, LineHash>>,
                   <<LineUrlB, LineOpenQuote>>, <<LineUrlA, LineNoFragment>>}

OneUrlManifests == {<<LineUrlA>>, <<LineHash>>}

Dir(n)   == [name |-> n, kind |-> "dir"]
File(n)  == [name |-> n, kind |-> "file"]
Other(n) == [name |-> n, kind |-> "other"]

\* An empty root.
TreeEmpty == [dirs |-> (<<>> :> <<>>), files |-> <<>>]

\* A manifest in the root, next to other files.
TreeRoot(m) ==
    [dirs  |-> (<<>> :> <<File("build.zig"), File(ZON)>>),
     files |-> (<<ZON>> :> m)]

\* A subdirectory listed before the manifest of the root.
TreeSubFirst(m1, m2) ==
    [dirs  |-> (<<>> :> <<Dir("a"), File(ZON)>>) @@ (<<"a">> :> <<File(ZON)>>),
     files |-> (<<ZON>> :> m1) @@ (<<"a", ZON>> :> m2)]

\* A manifest two levels down, listed after the manifest of the root.
TreeDeep(m1, m2) ==
    [dirs  |-> (<<>> :> <<File(ZON), Dir("a")>>) @@ (<<"a">> :> <<Dir("b")>>)
                 @@ (<<"a", "b">> :> <<File(ZON)>>),
     files |-> (<<ZON>> :> m1) @@ (<<"a", "b", ZON>> :> m2)]

\* A directory that bears the manifest's name, and a socket that does.
TreeZonDir(m) ==
    [dirs  |-> (<<>> :> <<Dir(ZON)>>) @@ (<<ZON>> :> <<Dir("a"), File(ZON)>>)
                 @@ (<<ZON, "a">> :> <<Other(ZON)>>),
     files |-> (<<ZON, ZON>> :> m)]

\* Three manifests: two sibling subdirectories around the root's own.
TreeSiblings(m1, m2, m3) ==
    [dirs  |-> (<<>> :> <<Dir("a"), File(ZON), Dir("b")>>)
                 @@ (<<"a">> :> <<File(ZON)>>) @@ (<<"b">> :> <<File(ZON)>>),
     files |-> (<<ZON>> :> m1) @@ (<<"a", ZON>> :> m2) @@ (<<"b", ZON>> :> m3)]

Trees ==
    {TreeEmpty}
    \cup {TreeRoot(m) : m \in AllManifests}
    \cup {TreeSubFirst(m[1], m[2]) : m \in SmallManifests \X SmallManifests}
    \cup {TreeDeep(m[1], m[2]) : m \in SmallManifests \X SmallManifests}
    \cup {TreeZonDir(m) : m \in SmallManifests}
    \cup {TreeSiblings(m[1], m[2], m[3]) :
            m \in OneUrlManifests \X OneUrlManifests \X OneUrlManifests}

\* What `zig fetch` prints: HashA and HashB agree on their first
\* HASH_DISPLAY_LEN characters, HashC is shorter than that.
HashA == <<"1", "2", "2", "0", "a", "b", "c", "d", "\n">>
HashB == <<"1", "2", "2", "0", "a", "b", "c", "e", "\n">>
HashC == <<"9", "f", "\n">>
Hashes == {HashA, HashB, HashC}

\* Variant of NextPos: the inner loop stops after the first URL of a group.
RECURSIVE NextPosFirstOnly(_, _, _)
NextPosFirstOnly(deps, g, u) ==
    IF g > Len(deps) THEN <<0, 0>>
    ELSE IF u = 0 /\ Len(deps[g].urls) > 0 THEN <<g, 1>>
    ELSE NextPosFirstOnly(deps, g + 1, 0)

\* The position that follows <<g, u>> in
\*     for folder, urls in dependencies.items(): for url in urls:
\* <<0, 0>> when the loops are over.  A group without URLs is passed over.
RECURSIVE NextPos(_, _, _)
NextPos(deps, g, u) ==
    IF g > Len(deps) THEN <<0, 0>>
    ELSE IF u < Len(deps[g].urls) THEN <<g, u + 1>>
    ELSE NextPos(deps, g + 1, 0)

\* ------------------------------------------------------------- the state
VARIABLES
    fs,            \* the directory tree under root
    recursive,     \* args.recursive
    update,        \* args.update
    pc,            \* position of main
    dependencies,  \* the mapping returned by get_dependencies
    gi, ui,        \* position of the two loops of main: group, URL
    base,          \* local base of main
    current,       \* local current of main
    latest,        \* local latest of main
    events,        \* oracle invocations and writes to stdout, in order
    zonRewrites,   \* per directory, how often `zig fetch --save` rewrote its manifest
    exitCode,      \* -1 while running, then the exit status
    error          \* the unhandled exception, "none" if none

vars == <<fs, recursive, update, pc, dependencies, gi, ui, base, current,
          latest, events, zonRewrites, exitCode, error>>

Decl == <<gi, ui>>
Folder == dependencies[gi].folder
Url == dependencies[gi].urls[ui]

FetchEvent(arg, ok, out) ==
    [kind |-> "fetch", decl |-> Decl, arg |-> arg, cwd |-> <<>>,
     ok |-> ok, out |-> out]
SaveEvent(arg, cwd, ok) ==
    [kind |-> "save", decl |-> Decl, arg |-> arg, cwd |-> cwd,
     ok |-> ok, out |-> <<>>]
WriteEvent(decl, line) ==
    [kind |-> "write", decl |-> decl, arg |-> <<>>, cwd |-> <<>>,
     ok |-> TRUE, out |-> line]

Init ==
    /\ fs \in Trees
    /\ recursive \in BOOLEAN
    /\ update \in BOOLEAN
    /\ pc = "start"
    /\ dependencies = <<>>
    /\ gi = 0
    /\ ui = 0
    /\ base = <<>>
    /\ current = <<>>
    /\ latest = <<>>
    /\ events = <<>>
    /\ zonRewrites = [d \in DOMAIN fs.dirs |-> 0]
    /\ exitCode = -1
    /\ error = "none"

\* An unhandled exception: the interpreter exits with status 1.
Raise(e) ==
    /\ pc' = "exit"
    /\ exitCode' = 1
    /\ error' = e

\* main, lines 160-169: collect, stop when the mapping is empty, otherwise
\* enter the loops.
Collect ==
    /\ pc = "start"
    /\ LET r == GetDependencies(fs, recursive) IN
       IF r.err # "none"
       THEN /\ Raise(r.err)
            /\ UNCHANGED <<dependencies, gi, ui, events>>
       ELSE IF r.deps = <<>>
       THEN /\ events' = Append(events, WriteEvent(<<0, 0>>, NoZonLine))
            /\ pc' = "exit"
            /\ exitCode' = 0
            /\ UNCHANGED <<dependencies, gi, ui, error>>
       ELSE LET n == NextPos(r.deps, 1, 0) IN
            /\ dependencies' = r.deps
            /\ UNCHANGED <<events, error>>
            /\ IF n = <<0, 0>>
               THEN /\ pc' = "exit"
                    /\ exitCode' = 0
                    /\ UNCHANGED <<gi, ui>>
               ELSE /\ gi' = n[1]
                    /\ ui' = n[2]
                    /\ pc' = "base"
                    /\ UNCHANGED exitCode
    /\ UNCHANGED <<fs, recursive, update, base, current, latest, zonRewrites>>

\* main, line 170: base = get_base(url)
ComputeBase ==
    /\ pc = "base"
    /\ LET r == GetBase(Url) IN
       IF r.ok
       THEN /\ base' = r.base
            /\ pc' = "current"
            /\ UNCHANGED <<exitCode, error>>
       ELSE /\ Raise("RuntimeError")
            /\ UNCHANGED base
    /\ UNCHANGED <<fs, recursive, update, dependencies, gi, ui, current,
                   latest, events, zonRewrites>>

\* Variant of HashCurrent: the exit status of `zig fetch` is not checked
\* (check=False); a failed query yields the empty output.
HashCurrentUnchecked ==
    /\ pc = "current"
    /\ \/ \E h \in Hashes :
            /\ events' = Append(events, FetchEvent(Url, TRUE, h))
            /\ current' = h
       \/ /\ events' = Append(events, FetchEvent(Url, FALSE, <<>>))
          /\ current' = <<>>
    /\ pc' = "latest"
    /\ UNCHANGED <<fs, recursive, update, dependencies, gi, ui, base, latest,
                   zonRewrites, exitCode, error>>

\* main, line 171, left operand: current = get_hash(url)
HashCurrent ==
    /\ pc = "current"
    /\ \/ \E h \in Hashes :
            /\ events' = Append(events, FetchEvent(Url, TRUE, h))
            /\ current' = h
            /\ pc' = "latest"
            /\ UNCHANGED <<exitCode, error>>
       \/ /\ events' = Append(events, FetchEvent(Url, FALSE, <<>>))
          /\ Raise("CalledProcessError")
          /\ UNCHANGED current
    /\ UNCHANGED <<fs, recursive, update, dependencies, gi, ui, base, latest,
                   zonRewrites>>

\* main, line 171, right operand: latest = get_hash(base)
HashLatest ==
    /\ pc = "latest"
    /\ \/ \E h \in Hashes :
            /\ events' = Append(events, FetchEvent(base, TRUE, h))
            /\ latest' = h
            /\ pc' = "compare"
            /\ UNCHANGED <<exitCode, error>>
       \/ /\ events' = Append(events, FetchEvent(base, FALSE, <<>>))
          /\ Raise("CalledProcessError")
          /\ UNCHANGED latest
    /\ UNCHANGED <<fs, recursive, update, dependencies, gi, ui, base, current,
                   zonRewrites>>

\* The two for loops of main move to the next declaration; after the last
\* one main returns 0.
Advance ==
    LET n == NextPos(dependencies, gi, ui) IN
    IF n = <<0, 0>>
    THEN /\ pc' = "exit"
         /\ exitCode' = 0
         /\ UNCHANGED <<gi, ui>>
    ELSE /\ gi' = n[1]
         /\ ui' = n[2]
         /\ pc' = "base"
         /\ UNCHANGED exitCode

\* main, lines 173-174
ReportUpToDate ==
    /\ pc = "compare"
    /\ Branch(current, latest, update) = "uptodate"
    /\ events' = Append(events, WriteEvent(Decl, UpToDateLine(base)))
    /\ Advance
    /\ UNCHANGED <<fs, recursive, update, dependencies, base, current, latest,
                   zonRewrites, error>>

\* Variant of UpdatePackage: the exit status of `zig fetch --save` is not
\* checked (check=False).
UpdatePackageUnchecked ==
    /\ pc = "compare"
    /\ Branch(current, latest, update) = "update"
    /\ \/ /\ events' = Append(events, SaveEvent(GetBase(Url).base, Folder, TRUE))
          /\ zonRewrites' = [zonRewrites EXCEPT ![Folder] = @ + 1]
       \/ /\ events' = Append(events, SaveEvent(GetBase(Url).base, Folder, FALSE))
          /\ UNCHANGED zonRewrites
    /\ pc' = "updated"
    /\ UNCHANGED <<fs, recursive, update, dependencies, gi, ui, base, current,
                   latest, exitCode, error>>

\* main, lines 175-176, and update_package: `zig fetch --save <base>` run
\* in folder, which rewrites the manifest of folder when it succeeds.
UpdatePackage ==
    /\ pc = "compare"
    /\ Branch(current, latest, update) = "update"
    /\ LET r == GetBase(Url) IN
       IF ~r.ok
       THEN /\ Raise("RuntimeError")
            /\ UNCHANGED <<events, zonRewrites>>
       ELSE \/ /\ events' = Append(events, SaveEvent(r.base, Folder, TRUE))
               /\ zonRewrites' = [zonRewrites EXCEPT ![Folder] = @ + 1]
               /\ pc' = "updated"
               /\ UNCHANGED <<exitCode, error>>
            \/ /\ events' = Append(events, SaveEvent(r.base, Folder, FALSE))
               /\ Raise("CalledProcessError")
               /\ UNCHANGED zonRewrites
    /\ UNCHANGED <<fs, recursive, update, dependencies, gi, ui, base, current,
                   latest>>

\* main, lines 177-180
ReportUpdated ==
    /\ pc = "updated"
    /\ events' = Append(events, WriteEvent(Decl, UpdatedLine(base, current, latest)))
    /\ Advance
    /\ UNCHANGED <<fs, recursive, update, dependencies, base, current, latest,
                   zonRewrites, error>>

\* main, lines 181-182
ReportOutOfDate ==
    /\ pc = "compare"
    /\ Branch(current, latest, update) = "outofdate"
    /\ events' = Append(events, WriteEvent(Decl, OutOfDateLine(base)))
    /\ Advance
    /\ UNCHANGED <<fs, recursive, update, dependencies, base, current, latest,
                   zonRewrites, error>>

Next ==
    \/ Collect
    \/ ComputeBase
    \/ HashCurrent
    \/ HashLatest
    \/ ReportUpToDate
    \/ UpdatePackage
    \/ ReportUpdated
    \/ ReportOutOfDate

Spec == Init /\ [][Next]_vars

\* =================================================== stating the claims
\* The definitions below state what the program is expected to do without
\* using the operators that model it.

Min(S) == CHOOSE x \in S : \A y \in S : x <= y
Max(S) == CHOOSE x \in S : \A y \in S : x >= y

HasFragment(u) == \E i \in 1..Len(u) : u[i] = "#"

\* The URL up to, and without, its first '#'.
StripFragment(u) == SubSeq(u, 1, Min({i \in 1..Len(u) : u[i] = "#"}) - 1)

\* At most the first seven characters of a hash.
First7(h) == [i \in 1..(IF Len(h) < 7 THEN Len(h) ELSE 7) |-> h[i]]

\* The line without the white space around it.
IsInk(c) == c \notin {" ", "\t", "\n", "\r", "\f"}

FirstInk(line) ==
    CHOOSE i \in 1..Len(line) :
        IsInk(line[i]) /\ \A j \in 1..(i - 1) : ~IsInk(line[j])

LastInk(line) ==
    CHOOSE i \in 1..Len(line) :
        IsInk(line[i]) /\ \A j \in (i + 1)..Len(line) : ~IsInk(line[j])

Trimmed(line) ==
    IF \A i \in 1..Len(line) : ~IsInk(line[i])
    THEN <<>>
    ELSE SubSeq(line, FirstInk(line), LastInk(line))

BeginsWith(s, a, b) == Len(s) >= 2 /\ s[1] = a /\ s[2] = b

IsCommentLine(line) == BeginsWith(Trimmed(line), "/", "/")

HasUrlMarker(t) ==
    Len(t) >= 4 /\ t[1] = "." /\ t[2] = "u" /\ t[3] = "r" /\ t[4] = "l"

IsUrlLine(line) == ~IsCommentLine(line) /\ HasUrlMarker(Trimmed(line))


HasQuote(line) == \E i \in 1..Len(line) : line[i] = "\""

\* The text between the first double quote of the trimmed line and its next
\* one, or the end of the line when there is no next one.
FirstQuote(t) ==
    CHOOSE i \in 1..Len(t) : t[i] = "\"" /\ \A j \in 1..(i - 1) : t[j] # "\""

NextQuote(t, a) ==
    IF \E i \in (a + 1)..Len(t) : t[i] = "\""
    THEN CHOOSE i \in (a + 1)..Len(t) :
             t[i] = "\"" /\ \A j \in (a + 1)..(i - 1) : t[j] # "\""
    ELSE Len(t) + 1

Quoted(t) ==
    IF HasQuote(t)
    THEN SubSeq(t, FirstQuote(t) + 1, NextQuote(t, FirstQuote(t)) - 1)
    ELSE <<>>

QuotedValue(line) == Quoted(Trimmed(line))

\* One value per '.url' line of the manifest, in file order.
RECURSIVE ExpectedValues(_)
ExpectedValues(m) ==
    IF m = <<>> THEN <<>>
    ELSE (IF IsUrlLine(Head(m)) THEN <<QuotedValue(Head(m))>> ELSE <<>>)
             \o ExpectedValues(Tail(m))

\* The declarations of the mapping, and their processing order.
Decls ==
    UNION {{<<g, u>> : u \in 1..Len(dependencies[g].urls)} :
             g \in 1..Len(dependencies)}

Before(d, e) == d[1] < e[1] \/ (d[1] = e[1] /\ d[2] < e[2])

UrlOf(d) == dependencies[d[1]].urls[d[2]]
FolderOf(d) == dependencies[d[1]].folder

\* What happened for declaration d, in order.
EvOf(d) == SelectSeq(events, LAMBDA e : e.decl = d)

\* The loop is past declaration d.
Done(d) == Before(d, Decl) \/ (pc = "exit" /\ exitCode = 0)

\* Both hash queries of d succeeded; its current and latest hash.
Queried(d) ==
    /\ Len(EvOf(d)) >= 2
    /\ EvOf(d)[1].kind = "fetch" /\ EvOf(d)[1].ok
    /\ EvOf(d)[2].kind = "fetch" /\ EvOf(d)[2].ok
CurrentOf(d) == EvOf(d)[1].out
LatestOf(d) == EvOf(d)[2].out

Failed(e) == e.kind \in {"fetch", "save"} /\ ~e.ok
HasFailure == \E i \in 1..Len(events) : Failed(events[i])

Writes == SelectSeq(events, LAMBDA e : e.kind = "write")

\* The run got past get_dependencies without an exception from it.
Collected == pc # "start" /\ error # "IndexError"

\* ------------------------------------------------------------------ C1
\* C1: when the two hashes obtained for a declaration are equal, the step
\* that follows writes exactly "[<base>] already up to date", invokes no
\* `zig fetch --save` and leaves every manifest as it is, whatever the
\* update flag.
C1_UpToDate ==
    [][(/\ pc = "compare"
        /\ Queried(Decl)
        /\ CurrentOf(Decl) = LatestOf(Decl))
       => /\ events' = Append(events,
                 WriteEvent(Decl, <<"[">> \o StripFragment(Url)
                                     \o <<"] already up to date\n">>))
          /\ zonRewrites' = zonRewrites]_vars

C1_Witness ==
    /\ update
    /\ \E d \in Decls :
         /\ Done(d)
         /\ Queried(d)
         /\ CurrentOf(d) = LatestOf(d)
         /\ Len(EvOf(d)) = 3
         /\ EvOf(d)[3].kind = "write"

\* ------------------------------------------------------------------ C2
\* C2: with update unset no `zig fetch --save` is ever run, and every
\* declaration whose two hashes differ gets exactly the line
\* "[<base>] out of date".
C2_ReportOnly ==
    ~update =>
        /\ \A i \in 1..Len(events) : events[i].kind # "save"
        /\ \A d \in Decls :
             (Done(d) /\ Queried(d) /\ CurrentOf(d) # LatestOf(d))
             => /\ Len(EvOf(d)) = 3
                /\ EvOf(d)[3] = WriteEvent(d, <<"[">> \o StripFragment(UrlOf(d))
                                                \o <<"] out of date\n">>)

C2_Witness ==
    /\ ~update
    /\ \E d \in Decls :
         /\ Done(d)
         /\ Queried(d)
         /\ CurrentOf(d) # LatestOf(d)
         /\ First7(CurrentOf(d)) = First7(LatestOf(d))

\* ------------------------------------------------------------------ C3
Contains(line, u) ==
    \E i \in 0..(Len(line) - Len(u)) : SubSeq(line, i + 1, i + Len(u)) = u

DeclaredIn(folder, u) ==
    /\ Append(folder, "build.zig.zon") \in DOMAIN fs.files
    /\ \E i \in DOMAIN fs.files[Append(folder, "build.zig.zon")] :
         Contains(fs.files[Append(folder, "build.zig.zon")][i], u)

\* C3: with update set, a declaration whose two hashes differ has
\* `zig fetch --save` run exactly once, on the base URL, in the directory
\* of the manifest that declares it, after both hash queries and before
\* its line, which is "[<base>] updated <current[:7]> -> <latest[:7]>".
C3_Updated ==
    update =>
        \A d \in Decls :
            (Done(d) /\ Queried(d) /\ CurrentOf(d) # LatestOf(d))
            => /\ Len(EvOf(d)) = 4
               /\ EvOf(d)[1].arg = UrlOf(d)
               /\ EvOf(d)[2].arg = StripFragment(UrlOf(d))
               /\ EvOf(d)[3].kind = "save"
               /\ EvOf(d)[3].ok
               /\ EvOf(d)[3].arg = StripFragment(UrlOf(d))
               /\ EvOf(d)[3].cwd = FolderOf(d)
               /\ DeclaredIn(EvOf(d)[3].cwd, UrlOf(d))
               /\ EvOf(d)[4] =
                    WriteEvent(d, <<"[">> \o StripFragment(UrlOf(d))
                                     \o <<"] updated ">> \o First7(CurrentOf(d))
                                     \o <<" -> ">> \o First7(LatestOf(d))
                                     \o <<"\n">>)

C3_Witness ==
    /\ update
    /\ \E d \in Decls :
         /\ Done(d)
         /\ Queried(d)
         /\ CurrentOf(d) # LatestOf(d)
         /\ Len(CurrentOf(d)) > 7
         /\ FolderOf(d) # <<>>
         /\ zonRewrites[FolderOf(d)] > 0

\* ------------------------------------------------------------------ C4
\* C4 as claimed: after a failed `zig fetch --save` the run still ends
\* with a line written for every declaration that follows the failed one.
C4_ContinuesAfterFailedUpdate ==
    pc = "exit" =>
        \A i \in 1..Len(events) :
            (events[i].kind = "save" /\ ~events[i].ok)
            => \A d \in Decls :
                 Before(events[i].decl, d)
                 => \E j \in 1..Len(events) :
                      events[j].kind = "write" /\ events[j].decl = d

\* C4 as amended: a failed `zig fetch --save` ends the run at once with a
\* non-zero exit: the failed invocation is the last thing the run does,
\* so no declaration that follows is queried, updated or reported.
C4_FailedUpdateAborts ==
    \A i \in 1..Len(events) :
        (events[i].kind = "save" /\ ~events[i].ok)
        => /\ i = Len(events)
           /\ pc = "exit"
           /\ exitCode = 1
           /\ error = "CalledProcessError"
           /\ \A j \in 1..Len(events) : ~Before(events[i].decl, events[j].decl)

C4_Witness ==
    /\ Len(events) > 0
    /\ events[Len(events)].kind = "save"
    /\ ~events[Len(events)].ok
    /\ \E d \in Decls : Before(events[Len(events)].decl, d)

\* ------------------------------------------------------------------ C5
\* C5: the step in which an oracle invocation fails does nothing but that
\* invocation: it writes no line, rewrites no manifest and ends the run
\* with a non-zero exit; from then on the run takes no step, so the
\* invocation is not retried, no later declaration is touched, and the
\* lines written and the manifests rewritten before stay as they are.
C5_FailureAborts ==
    [][/\ HasFailure => UNCHANGED <<events, zonRewrites, pc, exitCode>>
       /\ (~HasFailure /\ HasFailure')
          => /\ Len(events') = Len(events) + 1
             /\ SubSeq(events', 1, Len(events)) = events
             /\ Failed(events'[Len(events')])
             /\ events'[Len(events')].decl = Decl
             /\ \A i \in 1..Len(events') :
                  events'[i].decl = Decl => events'[i].kind # "write"
             /\ zonRewrites' = zonRewrites
             /\ pc' = "exit"
             /\ exitCode' \notin {-1, 0}
             /\ error' = "CalledProcessError"]_vars

C5_Witness ==
    /\ HasFailure
    /\ events[Len(events)].kind = "fetch"
    /\ \E i \in 1..Len(events) : events[i].kind = "write"
    /\ \E f \in DOMAIN zonRewrites : zonRewrites[f] > 0
    /\ \E d \in Decls : Before(Decl, d)

\* ------------------------------------------------------------------ C6
\* C6: get_base gives the URL without its fragment when the URL has a '#'
\* and raises when it has none; in the loop a URL without '#' ends the run
\* with a non-zero exit before any oracle invocation for it, and nothing
\* is done for it or for any declaration after it.
C6_GetBase ==
    /\ \A d \in Decls :
         IF HasFragment(UrlOf(d))
         THEN GetBase(UrlOf(d)) = [ok |-> TRUE, base |-> StripFragment(UrlOf(d))]
         ELSE ~GetBase(UrlOf(d)).ok
    /\ pc \in {"current", "latest", "compare", "updated"}
       => HasFragment(Url) /\ base = StripFragment(Url)
    /\ \A d \in Decls :
         ~HasFragment(UrlOf(d))
         => /\ ~Before(d, Decl)
            /\ \A i \in 1..Len(events) : Before(events[i].decl, d)
            /\ (Decl = d /\ pc # "base")
               => pc = "exit" /\ exitCode = 1 /\ error = "RuntimeError"

C6_Witness ==
    /\ pc = "exit"
    /\ error = "RuntimeError"
    /\ Len(events) > 0
    /\ \E d \in Decls : Before(Decl, d)

\* ------------------------------------------------------------------ C7
ScopeFiles ==
    {f \in DOMAIN fs.files : recursive \/ f = <<"build.zig.zon">>}

NoUrlInScope ==
    \A f \in ScopeFiles : \A i \in DOMAIN fs.files[f] : ~IsUrlLine(fs.files[f][i])


NothingFound ==
    /\ NoUrlInScope
       => /\ pc = "exit"
          /\ exitCode = 0
          /\ dependencies = <<>>
          /\ events =
               <<WriteEvent(<<0, 0>>,
                    <<"no ", "build.zig.zon", " file found (or no URLs in it).",
                      " did you run the command from the wrong directory?">>)>>
    /\ \A g \in 1..Len(dependencies) : dependencies[g].urls # <<>>

\* C7: when no manifest in scope has a '.url' line, the run writes the
\* message about the missing build.zig.zon and nothing else, invokes the
\* oracle not once and exits with 0; and no group of the mapping is ever
\* without URLs.
\* The mapping, the tree and the flags never change once main has
\* collected, so the claim is stated of the step that collects.
C7_NothingFound == [][pc = "start" => NothingFound']_vars

C7_Witness ==
    /\ pc = "exit"
    /\ NoUrlInScope
    /\ ScopeFiles # {}
    /\ DOMAIN fs.files # ScopeFiles

\* ------------------------------------------------------------------ C8
\* Where the manifest of folder p, or the directory leading to it, stands
\* among the entries of the directory c, a prefix of p.
RankIn(p, n) ==
    LET c == SubSeq(p, 1, n) IN
    CHOOSE k \in 1..Len(fs.dirs[c]) :
        fs.dirs[c][k] = (IF Len(p) = n
                         THEN [name |-> "build.zig.zon", kind |-> "file"]
                         ELSE [name |-> p[n + 1], kind |-> "dir"])

CommonLen(p, q) ==
    Max({n \in 0..Len(p) : n <= Len(q) /\ SubSeq(p, 1, n) = SubSeq(q, 1, n)})

MetBefore(p, q) == RankIn(p, CommonLen(p, q)) < RankIn(q, CommonLen(p, q))

RECURSIVE DeclsInOrder(_)
DeclsInOrder(g) ==
    IF g > Len(dependencies) THEN <<>>
    ELSE [u \in 1..Len(dependencies[g].urls) |-> <<g, u>>] \o DeclsInOrder(g + 1)

GroupsInOrder ==
    /\ \A g, h \in 1..Len(dependencies) :
         g < h => MetBefore(dependencies[g].folder, dependencies[h].folder)
    /\ \A g \in 1..Len(dependencies) :
         dependencies[g].urls =
             ExpectedValues(fs.files[Append(dependencies[g].folder, "build.zig.zon")])

EventsInOrder ==
    /\ \A i \in 1..(Len(events) - 1) :
         /\ ~Before(events[i + 1].decl, events[i].decl)
         /\ events[i].kind = "write"
            => Before(events[i].decl, events[i + 1].decl)
    /\ (pc = "exit" /\ exitCode = 0 /\ dependencies # <<>>)
       => /\ Len(Writes) = Len(DeclsInOrder(1))
          /\ \A k \in 1..Len(Writes) :
               /\ Writes[k].decl = DeclsInOrder(1)[k]
               /\ SubSeq(Writes[k].out, 1, 1 + Len(StripFragment(UrlOf(Writes[k].decl))))
                    = <<"[">> \o StripFragment(UrlOf(Writes[k].decl))

\* C8: a run that ends without error has written exactly one line per
\* declaration, in processing order: groups in the order in which the
\* traversal met their manifests, a group's URLs in the order of their
\* lines; and at any time nothing is done for a declaration after its own
\* line or a later declaration's has been written.
C8_OneLineEachInOrder ==
    [][/\ EventsInOrder'
       /\ pc = "start" => GroupsInOrder']_vars

C8_Witness ==
    /\ pc = "exit"
    /\ exitCode = 0
    /\ Len(dependencies) = 3
    /\ Len(Writes) = 3

\* ------------------------------------------------------------------ C9
WalkResult ==
    Collected =>
        /\ \A g \in 1..Len(dependencies) :
             /\ Append(dependencies[g].folder, "build.zig.zon") \in ScopeFiles
             /\ ~recursive => dependencies[g].folder = <<>>
             /\ dependencies[g].urls =
                  ExpectedValues(fs.files[Append(dependencies[g].folder, "build.zig.zon")])
             /\ \A h \in 1..Len(dependencies) :
                  dependencies[h].folder = dependencies[g].folder => h = g
        /\ \A f \in ScopeFiles :
             ExpectedValues(fs.files[f]) # <<>>
             => \E g \in 1..Len(dependencies) :
                  Append(dependencies[g].folder, "build.zig.zon") = f

\* C9: the mapping get_dependencies returns has one group for each
\* manifest in scope that declares a URL, under the directory that holds
\* that manifest and with that manifest's URLs only; in scope is the
\* manifest directly in root when recursive is unset, every manifest at
\* any depth when it is set.
C9_Walk == [][pc = "start" => WalkResult']_vars

C9_WitnessRecursive ==
    /\ Collected
    /\ recursive
    /\ Len(dependencies) = 2
    /\ \E g \in 1..2 : Len(dependencies[g].folder) = 2

\* ----------------------------------------------------------------- C10
OnlyRootManifest == DOMAIN fs.files = {<<"build.zig.zon">>}

RootManifest == fs.files[<<"build.zig.zon">>]

RootUrls == IF dependencies = <<>> THEN <<>> ELSE dependencies[1].urls

\* C10 as claimed: for every manifest, _find_dependencies returns, and
\* returns one quoted value per '.url' line that is no comment, in order.
C10_AlwaysReturnsValues ==
    (pc # "start" /\ OnlyRootManifest)
    => /\ error # "IndexError"
       /\ RootUrls = ExpectedValues(RootManifest)

UrlLinesQuoted(m) ==
    \A i \in DOMAIN m : IsUrlLine(m[i]) => HasQuote(m[i])

ValuesOrRaises ==
    OnlyRootManifest
    => IF UrlLinesQuoted(RootManifest)
       THEN /\ error # "IndexError"
            /\ RootUrls = ExpectedValues(RootManifest)
            /\ Len(dependencies) <= 1
       ELSE /\ error = "IndexError"
            /\ pc = "exit"
            /\ exitCode = 1
            /\ dependencies = <<>>
            /\ events = <<>>

\* C10 as amended: when every '.url' line of the manifest that is no
\* comment has a double quote, _find_dependencies returns one value per
\* such line, in order: the text from the first double quote of the line
\* to its next one, or to the end of the trimmed line; comment lines and
\* other lines give nothing.  When such a line has no double quote,
\* _find_dependencies raises IndexError and returns nothing.
C10_ReturnsValuesOrRaises == [][pc = "start" => ValuesOrRaises']_vars

C10_Witness ==
    /\ pc # "start"
    /\ OnlyRootManifest
    /\ RootManifest = <<LineComment, LineUrlA>>
    /\ RootUrls = <<<<"a", "#", "1">>>>

====
